---- MODULE Spec2Model ----
(***************************************************************************)
(* The approval gate of the Streamlit demo (src/streamlit_demo.py) and the *)
(* approval dispatch of the tool modules (src/tools/registry.py).          *)
(*                                                                         *)
(* One script pass of main() is one step: Streamlit re-executes the script *)
(* from the top for every operator interaction and for every st.rerun().   *)
(* A button reports a click only in the pass the click started, and only   *)
(* if that pass reaches the button; st.rerun() ends the pass at once.      *)
(* A registered action closure is identified by the order of its creation; *)
(* a record carries, next to the fields of the source, the probe counter   *)
(* calls: how often its action has been called.  messages holds what the   *)
(* latest pass appended to st.session_state.messages: the list is          *)
(* append-only and the code modelled here never reads it.                  *)
(***************************************************************************)
EXTENDS Integers, Sequences, FiniteSets, TLC

VARIABLES
    pending_approvals,     \* st.session_state.pending_approvals
    has_new_approval,      \* st.session_state.has_new_approval
    force_approval_check,  \* st.session_state.force_approval_check
    approval_ui_shown,     \* st.session_state.approval_ui_shown
    enable_user_approval,  \* st.session_state.enable_user_approval (= agent.enable_user_approval)
    messages,              \* st.session_state.messages: the entries the latest pass appended
    closures,              \* number of action closures registered so far
    tool_returns,          \* what the tool calls of the latest agent run returned
    now,                   \* the clock read by _request_approval: passes that registered
    raised,                \* number of action calls that raised so far
    rerun_requested,       \* the last pass ended in st.rerun()
    page,                  \* the widgets and alerts of the last pass that ran to its end
    runner,                \* the script threads that are inside an approve handler
    mock,                  \* test_multiple_approvals.py: the last call, its result, the loop
    registry,              \* a ToolRegistry, and the last call made on it with its result
    memory                 \* a MemoryManager: its store, and the last call with its result

vars == <<pending_approvals, has_new_approval, force_approval_check,
          approval_ui_shown, enable_user_approval, messages, closures,
          tool_returns, now, raised, rerun_requested, page, runner, mock,
          registry, memory>>

----------------------------------------------------------------------------
(* Bounds *)

\* closures (tool invocations) created in one behaviour
MaxActions == 2
\* tool calls the agent makes for one prompt
MaxToolCalls == 2
\* action calls that raise in one behaviour
MaxRaises == 1

Descriptions == {"Calculate: 2+2"}

ApprovalHandlers == {"None", "auto_approve", "console"}

----------------------------------------------------------------------------
(* Values *)

\* the string an action closure returns
Result(a) == <<"result", a>>

\* f"我已经提交了{action_description}以供批准。..."
DeferralMessage(description) == <<"submitted for approval", description>>

\* {"role": "assistant", "content": f"✅ 操作已执行：{result}"}
ExecutedMessage(result) == [role |-> "assistant", content |-> <<"executed", result>>]

\* {"role": "assistant", "content": f"❌ 操作被拒绝：{approval['description']}"}
DeniedMessage(description) == [role |-> "assistant", content |-> <<"denied", description>>]

UserMessage == [role |-> "user", content |-> <<"prompt">>]

ResponseMessage == [role |-> "assistant", content |-> <<"response">>]

\* the key of a record's approve and deny buttons: f"approve_{id}_{timestamp}"
ButtonKey(approval) == <<approval.id, approval.timestamp>>

NoKey == <<-1, -1>>

IsPending(approval) == approval.status = "pending"

\* sum(1 for approval in pending_approvals if approval.get('status') == 'pending')
PendingCount(approvals) == Cardinality({i \in DOMAIN approvals : IsPending(approvals[i])})

\* any(approval.get('status') == 'pending' for approval in pending_approvals)
AnyPending(approvals) == \E i \in DOMAIN approvals : IsPending(approvals[i])

\* [approval for approval in pending_approvals if approval['status'] == 'pending']
PendingList(approvals) == SelectSeq(approvals, IsPending)

----------------------------------------------------------------------------
(* The session state as one value, so that a pass is a function of it *)

Session ==
    [pending_approvals |-> pending_approvals,
     has_new_approval |-> has_new_approval,
     force_approval_check |-> force_approval_check,
     approval_ui_shown |-> approval_ui_shown,
     enable_user_approval |-> enable_user_approval,
     messages |-> messages,
     closures |-> closures,
     tool_returns |-> tool_returns,
     now |-> now]

\* approval['action'](): one more call of the action of record i
CallAction(s, i) == [s EXCEPT !.pending_approvals[i].calls = @ + 1]

\* a lambda is created: a new closure, not called yet
NewClosure(s) == [s EXCEPT !.closures = @ + 1]

----------------------------------------------------------------------------
(* Register: AdvancedStreamlitMemoryAgent._request_approval *)

\* approval_id = len(st.session_state.pending_approvals)
NewApprovalId(s) == Len(s.pending_approvals)

\* the record appended for closure a
NewApproval(s, description, a) ==
    [id |-> NewApprovalId(s),
     timestamp |-> s.now,
     description |-> description,
     action |-> a,
     status |-> "pending",
     calls |-> 0]

\* a Register that would run the action when it records it: the behaviour
\* the frame property C6 rules out
RequestApprovalEager(s, description, a) ==
    [s EXCEPT !.pending_approvals =
                  Append(@, [NewApproval(s, description, a) EXCEPT !.calls = 1]),
              !.has_new_approval = TRUE,
              !.force_approval_check = TRUE]

\* appends the record, raises both flags; the caller returns DeferralMessage
RequestApprovalGate(s, description, a) ==
    [s EXCEPT !.pending_approvals = Append(@, NewApproval(s, description, a)),
              !.has_new_approval = TRUE,
              !.force_approval_check = TRUE]

----------------------------------------------------------------------------
(* The tools of the Streamlit agent: calculator, file_operations, ... *)

\* if self.enable_user_approval: the tool registers its closure, else runs it
AgentToolGated(s) == s.enable_user_approval

\* what one tool call gave back to the agent: the deferral message, the
\* action's result, or the action's exception; called: how often the call
\* ran the action; action: the closure registered (0: none)
Returned(kind, a, called, description, site, flag, handler) ==
    [kind |-> kind, action |-> a, called |-> called, description |-> description,
     site |-> site, flag |-> flag, handler |-> handler]

\* the value a call returns when it runs the action itself
RanAction(call) == IF call.raises THEN "raised" ELSE "result"

\* a tool call of the agent. With approval enabled the tool registers the
\* closure a == s.closures + 1 and returns the deferral message;
\* otherwise it runs the logic and returns its result.
AgentTool(s, call) ==
    LET a == s.closures + 1
    IN IF AgentToolGated(s)
       THEN [RequestApprovalGate(NewClosure(s), call.description, a) EXCEPT
                !.tool_returns = Append(@, Returned("deferral", a, 0, call.description,
                                                    "agent", s.enable_user_approval, "gate"))]
       ELSE [s EXCEPT
                !.tool_returns = Append(@, Returned(RanAction(call), 0, 1, call.description,
                                                    "agent", s.enable_user_approval, "gate"))]

\* agent.chat(prompt): the agent calls its tools in turn; a tool that raises
\* ends the run (chat() catches and returns "Error: ...")
RECURSIVE AgentRun(_, _, _)
AgentRun(s, calls, i) ==
    IF i > Len(calls) THEN s
    ELSE LET s1 == AgentTool(s, calls[i])
         IN IF s1.tool_returns[Len(s1.tool_returns)].kind = "raised"
            THEN s1
            ELSE AgentRun(s1, calls, i + 1)

----------------------------------------------------------------------------
(* The outcome of a script pass *)

\* the page a pass draws: the buttons by key, the approve/deny button pairs
\* of the records in the order drawn, and the st.error alerts by closure
EmptyPage == [buttons |-> {}, records |-> <<>>, errors |-> {}]

\* the pass ended in st.rerun(): what it drew is discarded
Rerun(s) == [s |-> s, rerun |-> TRUE, page |-> EmptyPage]

\* the pass ran on
Continue(s, pg) == [s |-> s, rerun |-> FALSE, page |-> pg]

WithButtons(pg, keys) == [pg EXCEPT !.buttons = @ \cup keys]

NoEvent == [kind |-> "none", key |-> NoKey, calls |-> <<>>]

Click(kind) == [kind |-> kind, key |-> NoKey, calls |-> <<>>]

ClickRecord(kind, key) == [kind |-> kind, key |-> key, calls |-> <<>>]

ChatPrompt(calls) == [kind |-> "chat", key |-> NoKey, calls |-> calls]

----------------------------------------------------------------------------
(* The bulk buttons *)

\* what the approve loops do when the action raised: st.error(...), and the
\* status is left as it is
ApproveRaised(s, i) == s

\* what the approve loops do when the action returned: status, chat message
ApproveReturned(s, i) ==
    [s EXCEPT !.pending_approvals[i].status = "approved",
              !.messages = Append(@, ExecutedMessage(Result(s.pending_approvals[i].action)))]

\* the guard of the approve_all loop: if approval['status'] == 'pending'
ApproveAllGuard(approval) == approval.status = "pending"

\* for approval in st.session_state.pending_approvals: (approve_all)
RECURSIVE ApproveAllFrom(_, _, _)
ApproveAllFrom(s, i, raises) ==
    IF i > Len(s.pending_approvals) THEN s
    ELSE LET approval == s.pending_approvals[i]
             called == CallAction(s, i)
         IN IF ApproveAllGuard(approval)
            THEN IF approval.action \in raises
                 THEN ApproveAllFrom(ApproveRaised(called, i), i + 1, raises)
                 ELSE ApproveAllFrom(ApproveReturned(called, i), i + 1, raises)
            ELSE ApproveAllFrom(s, i + 1, raises)

\* the status a deny button writes
DenyStatus == "denied"

\* a deny that would run the action before it discards it: the behaviour
\* property C5 rules out
DenyRecordInvoking(s, i) ==
    [s EXCEPT !.pending_approvals[i].status = DenyStatus,
              !.pending_approvals[i].calls = @ + 1,
              !.messages = Append(@, DeniedMessage(s.pending_approvals[i].description))]

\* status = 'denied' and the chat message
DenyRecord(s, i) ==
    [s EXCEPT !.pending_approvals[i].status = DenyStatus,
              !.messages = Append(@, DeniedMessage(s.pending_approvals[i].description))]

\* for approval in st.session_state.pending_approvals: (deny_all)
RECURSIVE DenyAllFrom(_, _)
DenyAllFrom(s, i) ==
    IF i > Len(s.pending_approvals) THEN s
    ELSE IF s.pending_approvals[i].status = "pending"
         THEN DenyAllFrom(DenyRecord(s, i), i + 1)
         ELSE DenyAllFrom(s, i + 1)

\* a clear_processed that would empty the log as the clear-all buttons do:
\* the behaviour property C13 rules out
ClearProcessedAll(s) ==
    [s EXCEPT !.pending_approvals = <<>>]

\* a clear_processed that would drop the oldest record whatever its status:
\* the behaviour property C14 rules out
ClearProcessedOldest(s) ==
    [s EXCEPT !.pending_approvals = Tail(@)]

\* the clear_processed button keeps the pending records
ClearProcessed(s) ==
    [s EXCEPT !.pending_approvals = PendingList(@)]

----------------------------------------------------------------------------
(* The approve and deny buttons of one record *)

\* remaining_pending = sum(1 for a in pending_approvals
\*     if a.get('status') == 'pending' and a['id'] != approval['id'])
RemainingPending(s, i) ==
    Cardinality({j \in DOMAIN s.pending_approvals :
        /\ s.pending_approvals[j].status = "pending"
        /\ s.pending_approvals[j].id # s.pending_approvals[i].id})

\* if remaining_pending == 0: st.session_state.approval_ui_shown = False
ResetUiShown(s, i) ==
    IF RemainingPending(s, i) = 0 THEN [s EXCEPT !.approval_ui_shown = FALSE] ELSE s

\* the approve button of record i was clicked, and its action returned
ApproveOne(s, i) == ResetUiShown(ApproveReturned(s, i), i)

\* the deny button of record i was clicked
DenyOne(s, i) == ResetUiShown(DenyRecord(s, i), i)

\* a panel that would list every record of the log: the behaviour
\* property C4 rules out
ListedAlways(approval) == TRUE

\* the records the panel lists: if approval['status'] == 'pending'
Listed(approval) == approval.status = "pending"

\* a panel list that would drop the first pending record: the behaviour
\* property C10 rules out
PanelListTail(s) ==
    Tail(SelectSeq([i \in 1..Len(s.pending_approvals) |-> i],
                   LAMBDA i : Listed(s.pending_approvals[i])))

\* pending_approvals = [approval for approval in st.session_state.pending_approvals
\*     if approval['status'] == 'pending'], as positions of the log
PanelList(s) ==
    SelectSeq([i \in 1..Len(s.pending_approvals) |-> i],
              LAMBDA i : Listed(s.pending_approvals[i]))

\* for approval in pending_approvals: the card of list[k] and its two buttons
RECURSIVE IndividualFrom(_, _, _, _, _, _)
IndividualFrom(s, list, k, ev, raises, pg) ==
    IF k > Len(list) THEN Continue(s, pg)
    ELSE LET i == list[k]
             approval == s.pending_approvals[i]
             drawn == [pg EXCEPT !.records = Append(@, ButtonKey(approval))]
         IN IF ev.kind = "approve" /\ ev.key = ButtonKey(approval)
            THEN IF approval.action \in raises
                 THEN IndividualFrom(ApproveRaised(CallAction(s, i), i), list, k + 1, ev, raises,
                                     [drawn EXCEPT !.errors = @ \cup {approval.action}])
                 ELSE Rerun(ApproveOne(CallAction(s, i), i))
            ELSE IF ev.kind = "deny" /\ ev.key = ButtonKey(approval)
            THEN Rerun(DenyOne(s, i))
            ELSE IndividualFrom(s, list, k + 1, ev, raises, drawn)

----------------------------------------------------------------------------
(* main(): one pass of the script from the approval checks to the chat input *)

\* if prompt := st.chat_input(...): the agent runs, and new records mean a rerun
ChatInput(s, ev, pg) ==
    IF ev.kind = "chat"
    THEN LET asked == [s EXCEPT !.messages = Append(@, UserMessage)]
             initial_approval_count == Len(asked.pending_approvals)
             ran == AgentRun(asked, ev.calls, 1)
             answered == [ran EXCEPT !.messages = Append(@, ResponseMessage)]
         IN IF Len(answered.pending_approvals) > initial_approval_count
            THEN Rerun([answered EXCEPT !.has_new_approval = TRUE,
                                        !.force_approval_check = TRUE,
                                        !.now = @ + 1])
            ELSE Continue(answered, WithButtons(pg, {"main_chat_input"}))
    ELSE Continue(s, WithButtons(pg, {"main_chat_input"}))

\* if pending_count > 1: the three bulk buttons
BulkButtons(s, ev, raises, pg) ==
    IF PendingCount(s.pending_approvals) > 1
    THEN IF ev.kind = "approve_all"
         THEN Rerun(ApproveAllFrom(s, 1, raises))
         ELSE IF ev.kind = "deny_all"
         THEN Rerun(DenyAllFrom(s, 1))
         ELSE IF ev.kind = "clear_processed"
         THEN Rerun(ClearProcessed(s))
         ELSE Continue(s, WithButtons(pg, {"approve_all", "deny_all", "clear_processed"}))
    ELSE Continue(s, pg)

\* if pending_count > 0: the panel; elif pending_approvals: the history button
ApprovalPanel(s, ev, raises, pg) ==
    IF PendingCount(s.pending_approvals) > 0
    THEN LET b == BulkButtons(s, ev, raises, pg)
         IN IF b.rerun THEN b
            ELSE LET r == IndividualFrom(b.s, PanelList(b.s), 1, ev, raises, b.page)
                 IN IF r.rerun THEN r ELSE ChatInput(r.s, ev, r.page)
    ELSE IF s.pending_approvals # <<>>
         THEN IF ev.kind = "clear_all_history"
              THEN Rerun([s EXCEPT !.pending_approvals = <<>>])
              ELSE ChatInput(s, ev, WithButtons(pg, {"clear_all_history"}))
         ELSE ChatInput(s, ev, pg)

\* the debug_clear_all button
DebugClearAll(s) ==
    [s EXCEPT !.pending_approvals = <<>>,
              !.approval_ui_shown = FALSE,
              !.has_new_approval = FALSE,
              !.force_approval_check = FALSE]

RunScriptKeepingFlag(s, ev, raises) ==
    IF s.has_new_approval
    THEN Rerun(s)
    ELSE Continue([s EXCEPT !.force_approval_check = FALSE], EmptyPage)

\* the checks main() makes before it draws the panel
RunScript(s, ev, raises) ==
    IF s.has_new_approval
    THEN Rerun([s EXCEPT !.has_new_approval = FALSE])
    ELSE LET s1 == [s EXCEPT !.force_approval_check = FALSE]
             pg == IF s1.pending_approvals # <<>>
                   THEN WithButtons(EmptyPage, {"debug_clear_all"})
                   ELSE EmptyPage
         IN IF s.force_approval_check /\ AnyPending(s1.pending_approvals)
            THEN Rerun(s1)
            ELSE IF s1.pending_approvals # <<>> /\ ev.kind = "debug_clear_all"
            THEN Rerun(DebugClearAll(s1))
            ELSE IF /\ Len(s1.pending_approvals) > 0
                    /\ AnyPending(s1.pending_approvals)
                    /\ ~s1.approval_ui_shown
            THEN Rerun([s1 EXCEPT !.approval_ui_shown = TRUE])
            ELSE LET s2 == IF PendingCount(s1.pending_approvals) > 0 /\ ~s1.approval_ui_shown
                           THEN [s1 EXCEPT !.approval_ui_shown = TRUE]
                           ELSE s1
                 IN ApprovalPanel(s2, ev, raises, pg)

\* the sidebar checkbox: st.session_state.enable_user_approval = enable_user_approval,
\* and the agent is built again with the new flag
SetEnableUserApproval(s, ev) ==
    IF ev.kind = "toggle_approval"
    THEN [s EXCEPT !.enable_user_approval = ~@]
    ELSE s

----------------------------------------------------------------------------
(* BaseToolModule.request_approval, for a module built with the flag and the
   handler given; the handlers are those the repository's drivers install *)

\* a dispatch that would go to the handler on the flag alone or on the
\* handler alone: the behaviour property C7 rules out
ModuleDispatchesEither(flag, handler) == flag \/ handler # "None"

\* if self.enable_user_approval and self._approval_handler:
ModuleDispatches(flag, handler) == flag /\ handler # "None"

\* the kind of value request_approval returns, and whether it called the action
RequestApproval(flag, handler, answer, raises) ==
    IF ModuleDispatches(flag, handler)
    THEN IF handler = "console" /\ ~answer
         THEN [kind |-> "denied by user", called |-> FALSE]
         ELSE [kind |-> IF raises THEN "raised" ELSE "result", called |-> TRUE]
    ELSE [kind |-> IF raises THEN "raised" ELSE "result", called |-> TRUE]

----------------------------------------------------------------------------
(* ToolRegistry (src/tools/registry.py) over the tool modules *)

\* class ToolCategory(Enum), by value and in the order of definition
CategoryOrder ==
    <<"utility", "information", "productivity", "communication", "memory",
      "system", "entertainment", "mcp", "custom">>

ToSet(seq) == {seq[i] : i \in DOMAIN seq}

Categories == ToSet(CategoryOrder)

\* for cat in ...: try: ToolCategory(cat) except ValueError: (warning, skipped)
CoerceCategories(cats) == SelectSeq(cats, LAMBDA cat : cat \in Categories)

\* modules = [("basic", ...), ("advanced", ...), ("memory", ...), ("mcp", ...)]
ModuleOrder == <<"basic", "advanced", "memory", "mcp">>

\* the tools module.get_tools() returns (the MCP module: one enabled server
\* with one tool)
ToolsOf(module) ==
    CASE module = "basic" -> <<"calculator", "get_current_time">>
      [] module = "advanced" -> <<"web_search">>
      [] module = "memory" -> <<"memory_info", "clear_session">>
      [] module = "mcp" -> <<"mcp_server_tool">>

\* the tools of the four modules, module by module
ModuleToolNames ==
    ToolsOf("basic") \o ToolsOf("advanced") \o ToolsOf("memory") \o ToolsOf("mcp")

\* the tools whose function hands its logic to self.request_approval
WrapsLogic(name) ==
    name \in {"calculator", "web_search", "clear_session", "mcp_server_tool"}

NoConfig == [present |-> FALSE, category |-> "custom", requires_approval |-> FALSE,
             enabled |-> FALSE]

\* ToolConfig(name, category, description, requires_approval, ..., enabled=True)
ToolConfig(category, requires_approval, enabled) ==
    [present |-> TRUE, category |-> category, requires_approval |-> requires_approval,
     enabled |-> enabled]

\* the names register_custom_tool is called with
CustomNames == {"calculator", "mcp_server_tool", "custom_tool"}

ConfigNames == ToSet(ModuleToolNames) \cup CustomNames

\* module.get_tool_configs() of the four modules; the MCP tool's flag is
\* tool_config.get('requires_approval', False) of the server configuration
ModuleToolConfigs(mcp_requires_approval) ==
    [name \in ConfigNames |->
        CASE name = "calculator" -> ToolConfig("utility", TRUE, TRUE)
          [] name = "get_current_time" -> ToolConfig("information", FALSE, TRUE)
          [] name = "web_search" -> ToolConfig("communication", TRUE, TRUE)
          [] name = "memory_info" -> ToolConfig("memory", FALSE, TRUE)
          [] name = "clear_session" -> ToolConfig("memory", TRUE, TRUE)
          [] name = "mcp_server_tool" -> ToolConfig("mcp", mcp_requires_approval, TRUE)
          [] OTHER -> NoConfig]

\* an argument left out (None), and one passed
Omitted == [passed |-> FALSE, list |-> <<>>]

Passed(list) == [passed |-> TRUE, list |-> list]

\* no call made on the registry yet
NoCall ==
    [op |-> "none", categories |-> Omitted, enabled_tools |-> Omitted, name |-> "None",
     filter_categories |-> <<>>, filter_tools |-> <<>>,
     tools |-> <<>>, info |-> {}, stats |-> <<>>, dispatched |-> FALSE, ran |-> FALSE]

\* no module raises, and the places where one may: its constructor, its
\* get_tool_configs, its get_tools
NoFailure == [module |-> "None", stage |-> "none"]

Failures ==
    {NoFailure} \cup [module : ToSet(ModuleOrder), stage : {"construct", "configs", "tools"}]

\* module_class(...) returns: MemoryToolsModule raises ValueError without a
\* memory_manager
Constructs(reg, module) ==
    /\ ~(module = "memory" /\ ~reg.memory_manager)
    /\ ~(reg.fails.module = module /\ reg.fails.stage = "construct")

\* module.get_tool_configs() returns
LoadsConfigs(reg, module) ==
    /\ Constructs(reg, module)
    /\ ~(reg.fails.module = module /\ reg.fails.stage = "configs")

\* the configs one module hands to self._tool_configs.update, in order
ConfigsOf(reg, module) ==
    IF module \in reg.existing /\ LoadsConfigs(reg, module)
    THEN [i \in DOMAIN ToolsOf(module) |->
            [name |-> ToolsOf(module)[i],
             config |-> ModuleToolConfigs(reg.mcp_requires_approval)[ToolsOf(module)[i]]]]
    ELSE <<>>

UpdateConfigsKeepingFirst(tool_configs, entries) ==
    [name \in ConfigNames |->
        IF tool_configs[name].present \/ ~\E i \in DOMAIN entries : entries[i].name = name
        THEN tool_configs[name]
        ELSE entries[CHOOSE i \in DOMAIN entries :
                        /\ entries[i].name = name
                        /\ \A j \in DOMAIN entries : entries[j].name = name => i <= j].config]

\* dict.update and dict[name] = config: the entry of the name is replaced
UpdateConfigs(tool_configs, entries) ==
    [name \in ConfigNames |->
        IF \E i \in DOMAIN entries : entries[i].name = name
        THEN entries[CHOOSE i \in DOMAIN entries :
                        /\ entries[i].name = name
                        /\ \A j \in DOMAIN entries : entries[j].name = name => j <= i].config
        ELSE tool_configs[name]]

\* _initialize_modules; self._modules[module_name] = module keeps the place of
\* a key already held; a module that raises is logged and skipped; registered: every config put
\* into self._tool_configs so far, in order; custom_entries: those put by
\* register_custom_tool since
InitializeModules(reg) ==
    LET entries == ConfigsOf(reg, "basic") \o ConfigsOf(reg, "advanced")
                   \o ConfigsOf(reg, "memory") \o ConfigsOf(reg, "mcp")
    IN [reg EXCEPT
          !.modules = @ \o SelectSeq(ModuleOrder,
                                     LAMBDA module : /\ module \in reg.existing
                                                     /\ Constructs(reg, module)
                                                     /\ module \notin ToSet(reg.modules)),
          !.tool_configs = UpdateConfigs(@, entries),
          !.registered = @ \o entries,
          !.custom_entries = <<>>]

\* ToolRegistry.__init__ over the modules in existing; given: the
\* enabled_categories argument as passed (<<>>: None or empty)
NewRegistryOver(existing, given, enabled_tools, flag, handler, mcp_requires_approval, memory_manager, fails) ==
    InitializeModules(
        [existing |-> existing,
         given_categories |-> given,
         enabled_categories |-> IF given # <<>> THEN CoerceCategories(given)
                                ELSE CategoryOrder,
         enabled_tools |-> enabled_tools,
         enable_user_approval |-> flag,
         approval_handler |-> handler,
         mcp_requires_approval |-> mcp_requires_approval,
         memory_manager |-> memory_manager,
         fails |-> fails,
         modules |-> <<>>,
         tool_configs |-> [name \in ConfigNames |-> NoConfig],
         registered |-> <<>>,
         custom_entries |-> <<>>,
         customs |-> 0,
         reloads |-> 0,
         call |-> NoCall])

NewRegistry(given, enabled_tools, flag, handler, mcp_requires_approval, memory_manager, fails) ==
    NewRegistryOver(ToSet(ModuleOrder), given, enabled_tools, flag, handler,
                    mcp_requires_approval, memory_manager, fails)

\* ToolRegistry(): no memory_manager, so the memory module is skipped
DefaultRegistry == NewRegistry(<<>>, <<>>, FALSE, "None", FALSE, FALSE, NoFailure)

\* module.get_tools() of one loaded module; a module that raises is logged
\* and skipped
EnumeratedTools(reg, module) ==
    IF /\ module \in ToSet(reg.modules)
       /\ ~(reg.fails.module = module /\ reg.fails.stage = "tools")
    THEN ToolsOf(module)
    ELSE <<>>

\* for module_name, module in self._modules.items(): module.get_tools()
ModuleTools(reg) ==
    EnumeratedTools(reg, "basic") \o EnumeratedTools(reg, "advanced")
    \o EnumeratedTools(reg, "memory") \o EnumeratedTools(reg, "mcp")

\* the loop body of get_tools: is the tool appended to all_tools
ToolKept(reg, filter_categories, filter_tools, tool_name) ==
    LET config == reg.tool_configs[tool_name]
    IN /\ config.present /\ config.enabled
       /\ ~(filter_categories # <<>> /\ config.category \notin ToSet(filter_categories))
       /\ ~(filter_tools # <<>> /\ tool_name \notin ToSet(filter_tools))

\* filter_categories = categories or self.enabled_categories
OrEnabledCategories(reg, categories) ==
    IF categories.list # <<>> THEN categories.list ELSE reg.enabled_categories

\* filter_tools = enabled_tools or self.enabled_tools
OrEnabledTools(reg, enabled_tools) ==
    IF enabled_tools.list # <<>> THEN enabled_tools.list ELSE reg.enabled_tools

\* filter_categories, coerced if it is not empty
FilterCategories(reg, categories) ==
    IF OrEnabledCategories(reg, categories) # <<>>
    THEN CoerceCategories(OrEnabledCategories(reg, categories))
    ELSE OrEnabledCategories(reg, categories)

\* ToolRegistry.get_tools(categories, enabled_tools): the names of the tools
\* returned, in order
GetTools(reg, categories, enabled_tools) ==
    SelectSeq(ModuleTools(reg),
              LAMBDA tool_name : ToolKept(reg, FilterCategories(reg, categories),
                                          OrEnabledTools(reg, enabled_tools), tool_name))

\* ToolRegistry.get_tool_by_name(tool_name): the tool found, or None
GetToolByName(reg, tool_name) ==
    IF tool_name \in ToSet(ModuleTools(reg)) THEN tool_name ELSE "None"

\* ToolRegistry.get_tool_info(): the names listed under each category
GetToolInfo(reg) ==
    {<<category, name>> \in Categories \X ConfigNames :
        /\ reg.tool_configs[name].present
        /\ reg.tool_configs[name].category = category
        /\ reg.tool_configs[name].enabled}

\* sum(1 for config in self._tool_configs.values() if config.category ==
\* category and config.enabled)
EnabledInCategory(reg, category) ==
    Cardinality({name \in ConfigNames :
                    /\ reg.tool_configs[name].present
                    /\ reg.tool_configs[name].category = category
                    /\ reg.tool_configs[name].enabled})

GetStatisticsOfAllConfigs(reg) ==
    [total_tools |-> Cardinality({name \in ConfigNames : reg.tool_configs[name].present}),
     enabled_tools |-> Cardinality({name \in ConfigNames : reg.tool_configs[name].present}),
     modules_loaded |-> Len(reg.modules),
     categories |-> {<<category, EnabledInCategory(reg, category)>> :
                        category \in {c \in Categories : EnabledInCategory(reg, c) > 0}}]

\* ToolRegistry.get_statistics(); categories: the pairs of the dict, a
\* category being entered only if count > 0
GetStatistics(reg) ==
    [total_tools |-> Cardinality({name \in ConfigNames : reg.tool_configs[name].present}),
     enabled_tools |-> Cardinality({name \in ConfigNames :
                                      /\ reg.tool_configs[name].present
                                      /\ reg.tool_configs[name].enabled}),
     modules_loaded |-> Len(reg.modules),
     categories |-> {<<category, EnabledInCategory(reg, category)>> :
                        category \in {c \in Categories : EnabledInCategory(reg, c) > 0}}]

\* ToolRegistry.register_custom_tool(tool, config)
RegisterCustomToolConfig(reg, name, config) ==
    [reg EXCEPT !.tool_configs = UpdateConfigs(@, <<[name |-> name, config |-> config]>>),
                !.registered = Append(@, [name |-> name, config |-> config]),
                !.custom_entries = Append(@, [name |-> name, config |-> config]),
                !.customs = @ + 1]

ReloadModulesWithoutClear(reg) ==
    InitializeModules([reg EXCEPT !.reloads = @ + 1])

\* ToolRegistry.reload_modules()
ReloadModules(reg) ==
    InitializeModules([reg EXCEPT !.modules = <<>>,
                                  !.tool_configs = [name \in ConfigNames |-> NoConfig],
                                  !.reloads = @ + 1])

----------------------------------------------------------------------------
(* MemoryManager over an InMemoryStore (src/memory_manager.py) *)

Sessions == {"session1", "session2"}

\* the classes of the messages added to a history; import_session knows the
\* first three
MessageTypes == {"HumanMessage", "AIMessage", "ToolMessage"}

ImportedTypes == {"HumanMessage", "AIMessage", "SystemMessage"}

\* MemoryManager(max_messages_per_session=...)
max_messages_per_session == 2

\* a session the store does not hold
NoHistory == [held |-> FALSE, messages |-> <<>>]

\* SimpleChatMessageHistory()
SimpleChatMessageHistory == [held |-> TRUE, messages |-> <<>>]

NoMemoryCall ==
    [op |-> "none", session_id |-> "None", source |-> "None", max_messages |-> 0,
     returned |-> 0, success |-> FALSE]

\* MemoryManager(): an InMemoryStore with no session; added: the messages
\* added so far
NewMemoryManager ==
    [store |-> [session_id \in Sessions |-> NoHistory], added |-> 0, call |-> NoMemoryCall]

\* InMemoryStore.get_session_history: the session is created if missing
GetSessionHistory(store, session_id) ==
    IF store[session_id].held THEN store
    ELSE [store EXCEPT ![session_id] = SimpleChatMessageHistory]

ClearSessionOfAll(store, session_id) ==
    IF store[session_id].held
    THEN [store |-> [s \in Sessions |->
                        IF store[s].held THEN SimpleChatMessageHistory ELSE store[s]],
          returned |-> TRUE]
    ELSE [store |-> store, returned |-> FALSE]

\* InMemoryStore.clear_session: the store, and the value returned
ClearSession(store, session_id) ==
    IF store[session_id].held
    THEN [store |-> [store EXCEPT ![session_id] = SimpleChatMessageHistory],
          returned |-> TRUE]
    ELSE [store |-> store, returned |-> FALSE]

\* InMemoryStore.get_all_sessions
GetAllSessions(store) == {session_id \in Sessions : store[session_id].held}

\* InMemoryStore.get_memory_stats(session_id).message_count
MessageCount(store, session_id) ==
    IF store[session_id].held THEN Len(store[session_id].messages) ELSE 0

\* MemoryManager.clear_all_sessions: the store, and cleared_count
ClearAllSessions(store) ==
    [store |-> [session_id \in Sessions |-> ClearSession(store, session_id).store[session_id]],
     returned |-> Cardinality({session_id \in GetAllSessions(store) :
                                  ClearSession(store, session_id).returned})]

\* messages[-count:] of Python: the last count elements, the whole list for
\* count = 0 or count >= len
LastMessages(msgs, count) ==
    IF count = 0 \/ count >= Len(msgs) THEN msgs
    ELSE SubSeq(msgs, Len(msgs) - count + 1, Len(msgs))

\* max_msgs = max_messages or self.max_messages_per_session
MaxMsgs(max_messages) ==
    IF max_messages # 0 THEN max_messages ELSE max_messages_per_session

\* MemoryManager.trim_session_messages: the store, and the value returned
TrimSessionMessages(store, session_id, max_messages) ==
    LET created == GetSessionHistory(store, session_id)
        msgs == created[session_id].messages
    IN IF Len(msgs) <= MaxMsgs(max_messages)
       THEN [store |-> created, returned |-> 0]
       ELSE [store |-> [created EXCEPT ![session_id].messages =
                            LastMessages(msgs, MaxMsgs(max_messages))],
             returned |-> Len(msgs) - MaxMsgs(max_messages)]

\* MemoryManager.export_session: the list under "messages" of the JSON text
ExportSession(store, session_id) ==
    LET msgs == GetSessionHistory(store, session_id)[session_id].messages
    IN [i \in DOMAIN msgs |->
           [type |-> msgs[i].class, content |-> msgs[i].content]]

\* import_session: the message built from one entry; unknown types are skipped
Importable(msg_data) == msg_data.type \in ImportedTypes

\* MemoryManager.import_session on the exported messages: the session is
\* cleared, then every entry of a known type is added
ImportSession(store, session_id, exported) ==
    LET cleared == GetSessionHistory(ClearSession(store, session_id).store, session_id)
        kept == SelectSeq(exported, Importable)
    IN [cleared EXCEPT ![session_id].messages =
           [i \in DOMAIN kept |-> [class |-> kept[i].type, content |-> kept[i].content]]]

----------------------------------------------------------------------------
(* Steps *)

\* the script threads of one session that may overlap
Threads == {1, 2}

\* a thread outside the approve handlers; called: the closures it has called;
\* began: the closures registered when its bulk loop began
Idle(called) == [pc |-> "idle", target |-> 0, i |-> 0, called |-> called, began |-> 0]

\* no call of the test's functions made yet; the loop of the test is at the
\* top of its body, no cycle done
MockStart ==
    [op |-> "none", id |-> -1, value |-> FALSE,
     phase |-> "request", cycles |-> 0, onloop |-> TRUE]

Init ==
    /\ pending_approvals = <<>>
    /\ has_new_approval = FALSE
    /\ force_approval_check = FALSE
    /\ approval_ui_shown = FALSE
    /\ enable_user_approval = FALSE
    /\ messages = <<>>
    /\ closures = 0
    /\ tool_returns = <<>>
    /\ now = 0
    /\ raised = 0
    /\ rerun_requested = TRUE
    /\ page = EmptyPage
    /\ runner = [t \in Threads |-> Idle({})]
    /\ mock = MockStart
    /\ registry = DefaultRegistry
    /\ memory = NewMemoryManager

\* the closures a pass called: those whose record's counter grew
Called(s, t) ==
    {s.pending_approvals[i].action :
        i \in {j \in DOMAIN s.pending_approvals :
                 /\ j \in DOMAIN t.pending_approvals
                 /\ t.pending_approvals[j].action = s.pending_approvals[j].action
                 /\ t.pending_approvals[j].calls > s.pending_approvals[j].calls}}

\* one pass of the script, started by event ev
Pass(ev, raises) ==
    \E r \in {RunScript(SetEnableUserApproval([Session EXCEPT !.tool_returns = <<>>,
                                                                !.messages = <<>>], ev),
                          ev, raises)} :
       /\ pending_approvals' = r.s.pending_approvals
       /\ has_new_approval' = r.s.has_new_approval
       /\ force_approval_check' = r.s.force_approval_check
       /\ approval_ui_shown' = r.s.approval_ui_shown
       /\ enable_user_approval' = r.s.enable_user_approval
       /\ messages' = r.s.messages
       /\ closures' = r.s.closures
       /\ tool_returns' = r.s.tool_returns
       /\ now' = r.s.now
       /\ raised' = raised + Cardinality(raises \cap Called(Session, r.s))
       /\ rerun_requested' = r.rerun
       /\ page' = IF r.rerun THEN page ELSE r.page
       /\ runner' = runner
       /\ mock' = mock
       /\ registry' = registry
       /\ memory' = memory

\* one tool call of the agent: what it is about, and whether its logic raises
ToolCalls == [description : Descriptions, raises : BOOLEAN]

\* the tool calls of one agent run: a call that raises is the last one, and
\* whether the logic would raise plays no part when the call only registers it
ToolCallSeqs ==
    {calls \in UNION {[1..n -> ToolCalls] : n \in 0..MaxToolCalls} :
        \A i \in DOMAIN calls :
            calls[i].raises => (i = Len(calls) /\ ~enable_user_approval)}

\* the pass st.rerun() starts
AutoRerun ==
    /\ rerun_requested
    /\ Pass(NoEvent, {})

\* the sets of closures that may raise in one pass, among those it can call
RaiseSets(callable) == {r \in SUBSET callable : raised + Cardinality(r) <= MaxRaises}

\* the closure behind the buttons with this key
ActionOf(key) ==
    {pending_approvals[i].action :
        i \in {j \in DOMAIN pending_approvals : ButtonKey(pending_approvals[j]) = key}}

PendingActions ==
    {pending_approvals[i].action :
        i \in {j \in DOMAIN pending_approvals : IsPending(pending_approvals[j])}}

RecordKeys == {page.records[k] : k \in DOMAIN page.records}

ClickApprove ==
    \E key \in RecordKeys :
        \E raises \in RaiseSets(ActionOf(key)) :
            Pass(ClickRecord("approve", key), raises)

ClickDeny ==
    \E key \in RecordKeys : Pass(ClickRecord("deny", key), {})

ClickApproveAll ==
    /\ "approve_all" \in page.buttons
    /\ \E raises \in RaiseSets(PendingActions) : Pass(Click("approve_all"), raises)

ClickDenyAll ==
    /\ "deny_all" \in page.buttons
    /\ Pass(Click("deny_all"), {})

ClickClearProcessed ==
    /\ "clear_processed" \in page.buttons
    /\ Pass(Click("clear_processed"), {})

ClickDebugClearAll ==
    /\ "debug_clear_all" \in page.buttons
    /\ Pass(Click("debug_clear_all"), {})

ClickClearAllHistory ==
    /\ "clear_all_history" \in page.buttons
    /\ Pass(Click("clear_all_history"), {})

ToggleApproval ==
    Pass(Click("toggle_approval"), {})

\* a prompt is typed; at most max closures are registered in one behaviour
ChatUpTo(max) ==
    /\ "main_chat_input" \in page.buttons
    /\ \E calls \in ToolCallSeqs :
        /\ enable_user_approval => closures + Len(calls) <= max
        /\ Pass(ChatPrompt(calls), {})

Chat == ChatUpTo(MaxActions)

\* a tool of a BaseToolModule is called by its driver
ModuleToolCall ==
    /\ \E flag \in BOOLEAN, handler \in ApprovalHandlers, answer \in BOOLEAN,
          description \in Descriptions, raises \in BOOLEAN :
        LET r == RequestApproval(flag, handler, answer, raises)
        IN tool_returns' = <<Returned(r.kind, 0, IF r.called THEN 1 ELSE 0,
                                      description, "module", flag, handler)>>
    /\ UNCHANGED <<pending_approvals, has_new_approval, force_approval_check,
                   approval_ui_shown, enable_user_approval, messages, closures, now,
                   raised, rerun_requested, page, runner, mock, registry,
                   memory>>

Next ==
    \/ AutoRerun
    \/ ClickApprove
    \/ ClickDeny
    \/ ClickApproveAll
    \/ ClickDenyAll
    \/ ClickClearProcessed
    \/ ClickDebugClearAll
    \/ ClickClearAllHistory
    \/ ToggleApproval
    \/ Chat

Spec == Init /\ [][Next]_vars

----------------------------------------------------------------------------
(* Other specifications over the same steps *)

\* the tool dispatch alone: prompts, the approval checkbox, module tools
NextDispatch ==
    \/ AutoRerun
    \/ ToggleApproval
    \/ Chat
    \/ ModuleToolCall

SpecDispatch == Init /\ [][NextDispatch]_vars

\* closures registered in one behaviour of SpecIds
MaxRegisters == 4

\* the operator has ticked the approval checkbox and the page is drawn
InitGated ==
    /\ pending_approvals = <<>>
    /\ has_new_approval = FALSE
    /\ force_approval_check = FALSE
    /\ approval_ui_shown = FALSE
    /\ enable_user_approval = TRUE
    /\ messages = <<>>
    /\ closures = 0
    /\ tool_returns = <<>>
    /\ now = 0
    /\ raised = 0
    /\ rerun_requested = FALSE
    /\ page = WithButtons(EmptyPage, {"main_chat_input"})
    /\ runner = [t \in Threads |-> Idle({})]
    /\ mock = MockStart
    /\ registry = DefaultRegistry
    /\ memory = NewMemoryManager

Register == ChatUpTo(MaxRegisters)

\* Register, approve, deny and clear-processed only
NextIds ==
    \/ AutoRerun
    \/ Register
    \/ ClickApprove
    \/ ClickDeny
    \/ ClickClearProcessed

SpecIds == InitGated /\ [][NextIds]_vars

----------------------------------------------------------------------------
(* The approve handlers statement by statement, for script threads of one
   session that overlap: the status is read when the button is drawn, the
   action is called, and then the status is written. *)

\* position of the record of closure a in the log (0: not in the log)
IndexOf(a) ==
    IF \E i \in DOMAIN pending_approvals : pending_approvals[i].action = a
    THEN CHOOSE i \in DOMAIN pending_approvals : pending_approvals[i].action = a
    ELSE 0

\* the session state is replaced by s; the page on screen stays
Store(s) ==
    /\ pending_approvals' = s.pending_approvals
    /\ has_new_approval' = s.has_new_approval
    /\ force_approval_check' = s.force_approval_check
    /\ approval_ui_shown' = s.approval_ui_shown
    /\ enable_user_approval' = s.enable_user_approval
    /\ messages' = s.messages
    /\ closures' = s.closures
    /\ tool_returns' = s.tool_returns
    /\ now' = s.now
    /\ raised' = raised
    /\ page' = page
    /\ mock' = mock
    /\ registry' = registry
    /\ memory' = memory

\* a pass started by a click on an approve button runs up to that button:
\* the record is in the list drawn, so st.button(...) returns True
ThreadClickApprove(t) ==
    /\ runner[t].pc = "idle"
    /\ \E key \in RecordKeys :
        \E r \in {RunScript([Session EXCEPT !.tool_returns = <<>>, !.messages = <<>>],
                            NoEvent, {})} :
            /\ ~r.rerun
            /\ \E k \in DOMAIN r.page.records : r.page.records[k] = key
            /\ Store(r.s)
            /\ rerun_requested' = FALSE
            /\ runner' = [runner EXCEPT ![t] =
                   [@ EXCEPT !.pc = "clicked",
                             !.target = CHOOSE a \in ActionOf(key) : TRUE]]

\* result = approval['action']()
ThreadCallAction(t) ==
    /\ runner[t].pc = "clicked"
    /\ IndexOf(runner[t].target) # 0
    /\ Store(CallAction(Session, IndexOf(runner[t].target)))
    /\ rerun_requested' = rerun_requested
    /\ runner' = [runner EXCEPT ![t] =
           [@ EXCEPT !.pc = "called", !.called = @ \cup {runner[t].target}]]

\* approval['status'] = 'approved', the chat message, the flag, st.rerun()
ThreadWriteStatus(t) ==
    /\ runner[t].pc = "called"
    /\ IndexOf(runner[t].target) # 0
    /\ Store(ApproveOne([Session EXCEPT !.messages = <<>>], IndexOf(runner[t].target)))
    /\ rerun_requested' = TRUE
    /\ runner' = [runner EXCEPT ![t] = Idle(@.called)]

\* a pass started by a click on approve_all runs up to that button
ThreadClickApproveAll(t) ==
    /\ runner[t].pc = "idle"
    /\ "approve_all" \in page.buttons
    /\ \E r \in {RunScript([Session EXCEPT !.tool_returns = <<>>, !.messages = <<>>],
                           NoEvent, {})} :
        /\ ~r.rerun
        /\ "approve_all" \in r.page.buttons
        /\ Store(r.s)
        /\ rerun_requested' = FALSE
        /\ runner' = [runner EXCEPT ![t] =
               [@ EXCEPT !.pc = "all_check", !.i = 1, !.began = closures]]

\* for approval in ...: if approval['status'] == 'pending':
ThreadCheckStatus(t) ==
    /\ runner[t].pc = "all_check"
    /\ UNCHANGED <<pending_approvals, has_new_approval, force_approval_check,
                   approval_ui_shown, enable_user_approval, messages, closures,
                   tool_returns, now, raised, page, mock, registry,
                   memory>>
    /\ IF runner[t].i > Len(pending_approvals)
       THEN /\ rerun_requested' = TRUE
            /\ runner' = [runner EXCEPT ![t] = Idle(@.called)]
       ELSE /\ rerun_requested' = rerun_requested
            /\ runner' = [runner EXCEPT ![t] =
                   IF ApproveAllGuard(pending_approvals[runner[t].i])
                   THEN [@ EXCEPT !.pc = "all_call"]
                   ELSE [@ EXCEPT !.i = @ + 1]]

\* result = approval['action']() in the approve_all loop
ThreadCallActionAll(t) ==
    /\ runner[t].pc = "all_call"
    /\ runner[t].i \in DOMAIN pending_approvals
    /\ Store(CallAction(Session, runner[t].i))
    /\ rerun_requested' = rerun_requested
    /\ runner' = [runner EXCEPT ![t] =
           [@ EXCEPT !.pc = "all_write",
                     !.called = @ \cup {pending_approvals[runner[t].i].action}]]

\* approval['status'] = 'approved' and the chat message in the approve_all loop
ThreadWriteStatusAll(t) ==
    /\ runner[t].pc = "all_write"
    /\ runner[t].i \in DOMAIN pending_approvals
    /\ Store(ApproveReturned([Session EXCEPT !.messages = <<>>], runner[t].i))
    /\ rerun_requested' = rerun_requested
    /\ runner' = [runner EXCEPT ![t] = [@ EXCEPT !.pc = "all_check", !.i = @ + 1]]

\* prompts and reruns happen between the approve handlers
AllIdle == \A t \in Threads : runner[t].pc = "idle"

NextConcurrent ==
    \/ AllIdle /\ AutoRerun
    \/ AllIdle /\ Chat
    \/ \E t \in Threads : ThreadClickApprove(t)
    \/ \E t \in Threads : ThreadCallAction(t)
    \/ \E t \in Threads : ThreadWriteStatus(t)
    \/ \E t \in Threads : ThreadClickApproveAll(t)
    \/ \E t \in Threads : ThreadCheckStatus(t)
    \/ \E t \in Threads : ThreadCallActionAll(t)
    \/ \E t \in Threads : ThreadWriteStatusAll(t)

SpecConcurrent == InitGated /\ [][NextConcurrent]_vars

\* C2: two approve steps of one session that overlap never both call the
\* action of the same record.
C2_NeverBothInvoke ==
    \A t1 \in Threads : \A t2 \in Threads :
        t1 # t2 => runner[t1].called \cap runner[t2].called = {}

----------------------------------------------------------------------------
(* The bulk loops statement by statement while prompts of the same session
   register records: both loops walk st.session_state.pending_approvals
   itself, so a record appended while a loop runs is reached by it. *)

\* a pass started by a click on deny_all runs up to that button
ThreadClickDenyAll(t) ==
    /\ runner[t].pc = "idle"
    /\ "deny_all" \in page.buttons
    /\ \E r \in {RunScript([Session EXCEPT !.tool_returns = <<>>, !.messages = <<>>],
                           NoEvent, {})} :
        /\ ~r.rerun
        /\ "deny_all" \in r.page.buttons
        /\ Store(r.s)
        /\ rerun_requested' = FALSE
        /\ runner' = [runner EXCEPT ![t] =
               [@ EXCEPT !.pc = "deny_check", !.i = 1, !.began = closures]]

\* for approval in ...: if approval['status'] == 'pending': (deny_all)
ThreadDenyCheckStatus(t) ==
    /\ runner[t].pc = "deny_check"
    /\ UNCHANGED <<pending_approvals, has_new_approval, force_approval_check,
                   approval_ui_shown, enable_user_approval, messages, closures,
                   tool_returns, now, raised, page, mock, registry,
                   memory>>
    /\ IF runner[t].i > Len(pending_approvals)
       THEN /\ rerun_requested' = TRUE
            /\ runner' = [runner EXCEPT ![t] = Idle(@.called)]
       ELSE /\ rerun_requested' = rerun_requested
            /\ runner' = [runner EXCEPT ![t] =
                   IF pending_approvals[runner[t].i].status = "pending"
                   THEN [@ EXCEPT !.pc = "deny_write"]
                   ELSE [@ EXCEPT !.i = @ + 1]]

\* approval['status'] = 'denied' and the chat message in the deny_all loop
ThreadDenyWriteStatus(t) ==
    /\ runner[t].pc = "deny_write"
    /\ runner[t].i \in DOMAIN pending_approvals
    /\ Store(DenyRecord([Session EXCEPT !.messages = <<>>], runner[t].i))
    /\ rerun_requested' = rerun_requested
    /\ runner' = [runner EXCEPT ![t] = [@ EXCEPT !.pc = "deny_check", !.i = @ + 1]]

\* a prompt of the same session is answered while a bulk loop runs; one bulk
\* loop runs at a time
RegisterDuringBulk ==
    /\ ~AllIdle
    /\ Register

NextSnapshot ==
    \/ AllIdle /\ AutoRerun
    \/ AllIdle /\ Register
    \/ RegisterDuringBulk
    \/ \E t \in Threads : AllIdle /\ ThreadClickApproveAll(t)
    \/ \E t \in Threads : ThreadCheckStatus(t)
    \/ \E t \in Threads : ThreadCallActionAll(t)
    \/ \E t \in Threads : ThreadWriteStatusAll(t)
    \/ \E t \in Threads : AllIdle /\ ThreadClickDenyAll(t)
    \/ \E t \in Threads : ThreadDenyCheckStatus(t)
    \/ \E t \in Threads : ThreadDenyWriteStatus(t)

SpecSnapshot == InitGated /\ [][NextSnapshot]_vars

\* C12: a bulk loop resolves only records that were registered before it
\* began: the record it is calling or writing is none appended since.
C12_BulkSnapshot ==
    \A t \in Threads :
        (runner[t].pc \in {"all_call", "all_write", "deny_write"}
            /\ runner[t].i \in DOMAIN pending_approvals)
            => pending_approvals[runner[t].i].action <= runner[t].began


----------------------------------------------------------------------------
(* Register, resolve and clear-processed with actions that return *)

\* closures registered in one behaviour of SpecCleanup
MaxCleanupRegisters == 3

RegisterForCleanup == ChatUpTo(MaxCleanupRegisters)

\* an approve button is clicked and the action returns
ClickApproveReturns ==
    \E key \in RecordKeys : Pass(ClickRecord("approve", key), {})

NextCleanup ==
    \/ AutoRerun
    \/ RegisterForCleanup
    \/ ClickApproveReturns
    \/ ClickDeny
    \/ ClickClearProcessed

SpecCleanup == InitGated /\ [][NextCleanup]_vars

----------------------------------------------------------------------------
(* Register and resolve under a render loop that is not starved *)

\* closures registered in one behaviour of SpecRender
MaxRenderRegisters == 2

RegisterToRender == ChatUpTo(MaxRenderRegisters)

NextRender ==
    \/ AutoRerun
    \/ RegisterToRender
    \/ ClickApproveReturns
    \/ ClickDeny

\* st.rerun() always starts the next pass
SpecRender == InitGated /\ [][NextRender]_vars /\ WF_vars(AutoRerun)

----------------------------------------------------------------------------
(* src/test/test_multiple_approvals.py: the three functions the test calls on
   its MockSessionState, whose four fields are the session fields above.
   mock.op, mock.id and mock.value are the last call and what it returned;
   mock.phase, mock.cycles and mock.onloop follow the loop of
   test_multiple_approvals: request, UI check, approve the newest pending
   record; onloop is false once the calls left that order. *)

\* request cycles in one behaviour
MaxCycles == 3

\* calls of one action in one behaviour
MaxMockCalls == 2

\* the ids an approve is asked for, unknown ones included
MockIds == 0..MaxCycles

\* a UI check that would look at approval_ui_shown alone: the behaviour
\* property C17 rules out
MockUiCheckShownOnly(s) ==
    IF PendingCount(s.pending_approvals) > 0 /\ ~s.approval_ui_shown
    THEN [s |-> [s EXCEPT !.approval_ui_shown = TRUE], value |-> TRUE]
    ELSE [s |-> s, value |-> FALSE]

\* mock_ui_check(session_state): the session after the check, and its result
MockUiCheck(s) ==
    IF s.has_new_approval
    THEN [s |-> [s EXCEPT !.has_new_approval = FALSE], value |-> TRUE]
    ELSE LET s1 == [s EXCEPT !.force_approval_check = FALSE]
         IN IF s.force_approval_check /\ AnyPending(s1.pending_approvals)
            THEN [s |-> s1, value |-> TRUE]
            ELSE IF PendingCount(s1.pending_approvals) > 0 /\ ~s1.approval_ui_shown
            THEN [s |-> [s1 EXCEPT !.approval_ui_shown = TRUE], value |-> TRUE]
            ELSE [s |-> s1, value |-> FALSE]

\* a lookup that would fall back to the newest record when no record has
\* the id: the behaviour property C15 rules out
MockFindOrNewest(approvals, approval_id) ==
    IF \E i \in DOMAIN approvals : approvals[i].id = approval_id
    THEN CHOOSE i \in DOMAIN approvals :
            /\ approvals[i].id = approval_id
            /\ \A j \in 1..(i - 1) : approvals[j].id # approval_id
    ELSE Len(approvals)

\* for approval in session_state.pending_approvals: if approval['id'] == approval_id:
\* the position of the first record with the id (0: none)
MockFind(approvals, approval_id) ==
    IF \E i \in DOMAIN approvals : approvals[i].id = approval_id
    THEN CHOOSE i \in DOMAIN approvals :
            /\ approvals[i].id = approval_id
            /\ \A j \in 1..(i - 1) : approvals[j].id # approval_id
    ELSE 0

\* mock_approve_action(session_state, approval_id)
MockApproveAction(s, approval_id) ==
    LET i == MockFind(s.pending_approvals, approval_id)
    IN IF i = 0
       THEN [s |-> s, value |-> FALSE]
       ELSE [s |-> ResetUiShown([CallAction(s, i) EXCEPT
                                    !.pending_approvals[i].status = "approved"], i),
             value |-> TRUE]

\* for approval in reversed(pending_approvals): if status == 'pending': its id
NewestPendingId(approvals) ==
    IF AnyPending(approvals)
    THEN approvals[CHOOSE i \in DOMAIN approvals :
                      /\ IsPending(approvals[i])
                      /\ \A j \in (i + 1)..Len(approvals) : ~IsPending(approvals[j])].id
    ELSE -1

\* the session fields of the test are replaced by those of s
MockStore(s) ==
    /\ pending_approvals' = s.pending_approvals
    /\ has_new_approval' = s.has_new_approval
    /\ force_approval_check' = s.force_approval_check
    /\ approval_ui_shown' = s.approval_ui_shown
    /\ closures' = s.closures
    /\ now' = s.now
    /\ UNCHANGED <<enable_user_approval, messages, tool_returns, raised,
                   rerun_requested, page, runner, registry, memory>>

\* result = mock_request_approval(desc, func, mock_session)
MockRequest ==
    /\ closures < MaxCycles
    /\ \E description \in Descriptions :
        MockStore([RequestApprovalGate(NewClosure(Session), description, closures + 1)
                      EXCEPT !.now = @ + 1])
    /\ mock' = [op |-> "request", id |-> -1, value |-> TRUE,
                phase |-> "check", cycles |-> mock.cycles,
                onloop |-> mock.onloop /\ mock.phase = "request"]

\* ui_should_show = mock_ui_check(mock_session)
MockCheck ==
    \E r \in {MockUiCheck(Session)} :
        /\ MockStore(r.s)
        /\ mock' = [op |-> "check", id |-> -1, value |-> r.value,
                    phase |-> "approve", cycles |-> mock.cycles,
                    onloop |-> mock.onloop /\ mock.phase = "check"]

\* mock_approve_action(mock_session, approval_id)
MockApprove ==
    \E approval_id \in MockIds :
        \E r \in {MockApproveAction(Session, approval_id)} :
            /\ \A i \in DOMAIN r.s.pending_approvals :
                   r.s.pending_approvals[i].calls <= MaxMockCalls
            /\ MockStore(r.s)
            /\ \E onloop \in {/\ mock.onloop
                                /\ mock.phase = "approve"
                                /\ approval_id = NewestPendingId(pending_approvals)} :
                mock' = [op |-> "approve", id |-> approval_id, value |-> r.value,
                         phase |-> "request",
                         cycles |-> IF onloop THEN mock.cycles + 1 ELSE mock.cycles,
                         onloop |-> onloop]

NextMock ==
    \/ MockRequest
    \/ MockCheck
    \/ MockApprove

SpecMock == Init /\ [][NextMock]_vars

----------------------------------------------------------------------------
(* Calls on a ToolRegistry and on the tools it returns *)

\* register_custom_tool calls in one behaviour
MaxCustomTools == 1

\* the category filters passed to get_tools or configured: none, a category,
\* a category and an unknown string, an unknown string alone
CategoryFilters ==
    {<<>>, <<"utility">>, <<"memory", "not_a_category">>, <<"not_a_category">>}

\* the name filters passed to get_tools
NameFilters == {<<>>, <<"calculator">>}

\* the enabled_tools the registry is constructed with (<<>>: None or empty)
EnabledTools == {<<>>, <<"get_current_time">>}

\* the categories and enabled_tools arguments of a get_tools call
CategoryArguments == {Omitted} \cup {Passed(list) : list \in CategoryFilters}

NameArguments == {Omitted} \cup {Passed(list) : list \in NameFilters}


InitRegistry ==
    /\ pending_approvals = <<>>
    /\ has_new_approval = FALSE
    /\ force_approval_check = FALSE
    /\ approval_ui_shown = FALSE
    /\ enable_user_approval = FALSE
    /\ messages = <<>>
    /\ closures = 0
    /\ tool_returns = <<>>
    /\ now = 0
    /\ raised = 0
    /\ rerun_requested = TRUE
    /\ page = EmptyPage
    /\ runner = [t \in Threads |-> Idle({})]
    /\ mock = MockStart
    /\ memory = NewMemoryManager
    /\ \E given \in CategoryFilters, enabled_tools \in EnabledTools, flag \in BOOLEAN,
          handler \in {"None", "auto_approve"}, mcp_requires_approval \in BOOLEAN,
          memory_manager \in BOOLEAN :
        registry = NewRegistry(given, enabled_tools, flag, handler,
                               mcp_requires_approval, memory_manager, NoFailure)

RegistryUnchanged ==
    UNCHANGED <<pending_approvals, has_new_approval, force_approval_check,
                approval_ui_shown, enable_user_approval, messages, closures,
                tool_returns, now, raised, rerun_requested, page, runner, mock,
                memory>>

CallGetTools ==
    /\ \E categories \in CategoryArguments, enabled_tools \in NameArguments :
        registry' = [registry EXCEPT !.call =
            [NoCall EXCEPT !.op = "get_tools", !.categories = categories,
                           !.enabled_tools = enabled_tools,
                           !.filter_categories = OrEnabledCategories(registry, categories),
                           !.filter_tools = OrEnabledTools(registry, enabled_tools),
                           !.tools = GetTools(registry, categories, enabled_tools)]]
    /\ RegistryUnchanged

CallGetToolByName ==
    /\ \E tool_name \in ConfigNames :
        registry' = [registry EXCEPT !.call =
            [NoCall EXCEPT !.op = "get_tool_by_name", !.name = tool_name,
                           !.tools = IF GetToolByName(registry, tool_name) = "None"
                                     THEN <<>>
                                     ELSE <<GetToolByName(registry, tool_name)>>]]
    /\ RegistryUnchanged

CallGetToolInfo ==
    /\ registry' = [registry EXCEPT !.call =
            [NoCall EXCEPT !.op = "get_tool_info", !.info = GetToolInfo(registry)]]
    /\ RegistryUnchanged

CallRegisterCustomTool ==
    /\ registry.customs < MaxCustomTools
    /\ \E name \in CustomNames, category \in {"utility", "custom"},
          requires_approval \in BOOLEAN, enabled \in BOOLEAN :
        registry' = [RegisterCustomToolConfig(registry, name,
                        ToolConfig(category, requires_approval, enabled))
                     EXCEPT !.call = [NoCall EXCEPT !.op = "register_custom_tool",
                                                    !.name = name]]
    /\ RegistryUnchanged

\* a module tool is invoked: its function runs the logic or hands it to
\* request_approval of its module, built with the registry's flag and handler
CallTool ==
    /\ \E tool_name \in ToSet(ModuleTools(registry)) :
        \E r \in {RequestApproval(registry.enable_user_approval,
                                  registry.approval_handler, TRUE, FALSE)} :
            registry' = [registry EXCEPT !.call =
                [NoCall EXCEPT !.op = "tool", !.name = tool_name,
                    !.dispatched = /\ WrapsLogic(tool_name)
                                   /\ ModuleDispatches(registry.enable_user_approval,
                                                       registry.approval_handler),
                    !.ran = WrapsLogic(tool_name) => r.called]]
    /\ RegistryUnchanged

NextRegistry ==
    \/ CallGetTools
    \/ CallGetToolByName
    \/ CallGetToolInfo
    \/ CallRegisterCustomTool
    \/ CallTool

SpecRegistry == InitRegistry /\ [][NextRegistry]_vars

----------------------------------------------------------------------------
(* A ToolRegistry some of whose modules raise: construction, reload,
   statistics *)

\* reload_modules calls in one behaviour
MaxReloads == 2

InitModules ==
    /\ pending_approvals = <<>>
    /\ has_new_approval = FALSE
    /\ force_approval_check = FALSE
    /\ approval_ui_shown = FALSE
    /\ enable_user_approval = FALSE
    /\ messages = <<>>
    /\ closures = 0
    /\ tool_returns = <<>>
    /\ now = 0
    /\ raised = 0
    /\ rerun_requested = TRUE
    /\ page = EmptyPage
    /\ runner = [t \in Threads |-> Idle({})]
    /\ mock = MockStart
    /\ memory = NewMemoryManager
    /\ \E memory_manager \in BOOLEAN, fails \in Failures :
        registry = NewRegistry(<<>>, <<>>, FALSE, "None", FALSE, memory_manager, fails)

\* get_tools with a category filter or none
CallGetToolsOfModules ==
    /\ \E categories \in {Omitted, Passed(<<"utility">>)} :
        registry' = [registry EXCEPT !.call =
            [NoCall EXCEPT !.op = "get_tools", !.categories = categories,
                           !.filter_categories = OrEnabledCategories(registry, categories),
                           !.filter_tools = OrEnabledTools(registry, Omitted),
                           !.tools = GetTools(registry, categories, Omitted)]]
    /\ RegistryUnchanged

\* register_custom_tool with a config of category CUSTOM, enabled or not
CallRegisterCustomConfig ==
    /\ registry.customs < MaxCustomTools
    /\ \E name \in CustomNames, enabled \in BOOLEAN :
        registry' = [RegisterCustomToolConfig(registry, name,
                        ToolConfig("custom", FALSE, enabled))
                     EXCEPT !.call = [NoCall EXCEPT !.op = "register_custom_tool",
                                                    !.name = name]]
    /\ RegistryUnchanged

CallGetStatistics ==
    /\ registry' = [registry EXCEPT !.call =
            [NoCall EXCEPT !.op = "get_statistics", !.stats = <<GetStatistics(registry)>>]]
    /\ RegistryUnchanged

CallReloadModules ==
    /\ registry.reloads < MaxReloads
    /\ registry' = [ReloadModules(registry) EXCEPT
                        !.call = [NoCall EXCEPT !.op = "reload_modules"]]
    /\ RegistryUnchanged

NextModules ==
    \/ CallGetToolsOfModules
    \/ CallGetStatistics
    \/ CallRegisterCustomConfig
    \/ CallReloadModules

SpecModules == InitModules /\ [][NextModules]_vars

----------------------------------------------------------------------------
(* Calls on a MemoryManager *)

\* messages added to the histories in one behaviour
MaxMessages == 3

\* the largest max_messages passed to trim_session_messages
MaxTrim == 2

InitMemory == Init

MemoryUnchanged ==
    UNCHANGED <<pending_approvals, has_new_approval, force_approval_check,
                approval_ui_shown, enable_user_approval, messages, closures,
                tool_returns, now, raised, rerun_requested, page, runner, mock,
                registry>>

\* history = get_session_history(session_id); history.add_message(message)
AddMessage ==
    /\ memory.added < MaxMessages
    /\ \E session_id \in Sessions, class \in MessageTypes :
        memory' = [store |-> [GetSessionHistory(memory.store, session_id)
                                EXCEPT ![session_id].messages =
                                    Append(@, [class |-> class,
                                               content |-> memory.added + 1])],
                   added |-> memory.added + 1,
                   call |-> [NoMemoryCall EXCEPT !.op = "add_message",
                                                 !.session_id = session_id]]
    /\ MemoryUnchanged

CallTrimSessionMessages ==
    /\ \E session_id \in Sessions, max_messages \in 0..MaxTrim :
        \E r \in {TrimSessionMessages(memory.store, session_id, max_messages)} :
            memory' = [memory EXCEPT
                          !.store = r.store,
                          !.call = [NoMemoryCall EXCEPT !.op = "trim_session_messages",
                                                        !.session_id = session_id,
                                                        !.max_messages = max_messages,
                                                        !.returned = r.returned]]
    /\ MemoryUnchanged

\* import_session(target, export_session(source))
CallExportImport ==
    /\ \E source \in Sessions, target \in Sessions :
        memory' = [memory EXCEPT
                      !.store = ImportSession(GetSessionHistory(memory.store, source),
                                              target, ExportSession(memory.store, source)),
                      !.call = [NoMemoryCall EXCEPT !.op = "import_session",
                                                    !.session_id = target,
                                                    !.source = source,
                                                    !.success = TRUE]]
    /\ MemoryUnchanged

CallClearSession ==
    /\ \E session_id \in Sessions :
        \E r \in {ClearSession(memory.store, session_id)} :
            memory' = [memory EXCEPT
                          !.store = r.store,
                          !.call = [NoMemoryCall EXCEPT !.op = "clear_session",
                                                        !.session_id = session_id,
                                                        !.success = r.returned]]
    /\ MemoryUnchanged

CallClearAllSessions ==
    /\ \E r \in {ClearAllSessions(memory.store)} :
        memory' = [memory EXCEPT
                      !.store = r.store,
                      !.call = [NoMemoryCall EXCEPT !.op = "clear_all_sessions",
                                                    !.returned = r.returned]]
    /\ MemoryUnchanged

NextMemory ==
    \/ AddMessage
    \/ CallTrimSessionMessages
    \/ CallExportImport
    \/ CallClearSession
    \/ CallClearAllSessions

SpecMemory == InitMemory /\ [][NextMemory]_vars

----------------------------------------------------------------------------
(* The render loop alone, from any flags and any log *)

\* the longest log the render loop starts from
MaxLog == 2

\* the logs of a length: record i was registered i-th, with any status
LogsOf(length) ==
    {[i \in 1..length |->
        [id |-> i - 1,
         timestamp |-> i,
         description |-> CHOOSE d \in Descriptions : TRUE,
         action |-> i,
         status |-> statuses[i],
         calls |-> IF statuses[i] = "approved" THEN 1 ELSE 0]] :
     statuses \in [1..length -> {"pending", "approved", "denied"}]}

InitRerun ==
    /\ pending_approvals \in UNION {LogsOf(length) : length \in 0..MaxLog}
    /\ has_new_approval \in BOOLEAN
    /\ force_approval_check \in BOOLEAN
    /\ approval_ui_shown \in BOOLEAN
    /\ enable_user_approval = TRUE
    /\ messages = <<>>
    /\ closures = Len(pending_approvals)
    /\ tool_returns = <<>>
    /\ now = Len(pending_approvals) + 1
    /\ raised = 0
    /\ rerun_requested = TRUE
    /\ page = EmptyPage
    /\ runner = [t \in Threads |-> Idle({})]
    /\ mock = MockStart
    /\ registry = DefaultRegistry
    /\ memory = NewMemoryManager

\* the script runs again whenever a pass ended in st.rerun(); nobody clicks
NextRerun == AutoRerun

SpecRerun == InitRerun /\ [][NextRerun]_vars

----------------------------------------------------------------------------
(* Properties *)

\* record j of the next state is record i of this state
SameRecord(i, j) == pending_approvals'[j].action = pending_approvals[i].action

Terminal(approval) == approval.status \in {"approved", "denied"}

\* the entries of msgs of the given kind
MessagesOf(msgs, kind) == {k \in DOMAIN msgs : msgs[k].content[1] = kind}

\* the button keys of a sequence of records
KeysOf(approvals) == [k \in DOMAIN approvals |-> ButtonKey(approvals[k])]

\* C1: over any sequence of operator operations on the approval log, the
\* action of every record is called at most once, also when a call raises.
C1_AtMostOnceExecution ==
    \A i \in DOMAIN pending_approvals : pending_approvals[i].calls <= 1

\* C3: when an approve step calls the action of a record and the call
\* raises, the record's status becomes 'approved' in that step.
C3_RaisedStillApproved ==
    [][raised' > raised =>
        \A i \in DOMAIN pending_approvals : \A j \in DOMAIN pending_approvals' :
            (SameRecord(i, j) /\ pending_approvals'[j].calls > pending_approvals[i].calls)
                => pending_approvals'[j].status = "approved"]_vars

C5_DenyNeverInvokes ==
    [][/\ \A i \in DOMAIN pending_approvals : \A j \in DOMAIN pending_approvals' :
            (SameRecord(i, j) /\ pending_approvals'[j].status = "denied")
                => pending_approvals'[j].calls = pending_approvals[i].calls
       /\ Cardinality(MessagesOf(messages', "denied")) =
            Cardinality({i \in DOMAIN pending_approvals :
                /\ IsPending(pending_approvals[i])
                /\ \E j \in DOMAIN pending_approvals' :
                    SameRecord(i, j) /\ pending_approvals'[j].status = "denied"})]_vars

\* deny_all has just denied two records that were never called
C5_BothDenied ==
    /\ Len(pending_approvals) = 2
    /\ \A i \in DOMAIN pending_approvals :
        pending_approvals[i].status = "denied" /\ pending_approvals[i].calls = 0
    /\ Cardinality(MessagesOf(messages, "denied")) = 2

\* C6: a step that registers k closures appends k pending records, in order,
\* to the end of the log without calling them, returns a deferral message for
\* each, leaves both signal flags true and every earlier record as it was.
C6_RegisterFrame ==
    [][closures' > closures =>
        LET n == Len(pending_approvals)
            k == closures' - closures
        IN /\ Len(pending_approvals') = n + k
           /\ SubSeq(pending_approvals', 1, n) = pending_approvals
           /\ Len(tool_returns') = k
           /\ \A m \in 1..k :
                /\ pending_approvals'[n + m].status = "pending"
                /\ pending_approvals'[n + m].calls = 0
                /\ pending_approvals'[n + m].action = closures + m
                /\ tool_returns'[m].kind = "deferral"
                /\ tool_returns'[m].called = 0
                /\ tool_returns'[m].action = closures + m
                /\ tool_returns'[m].description = pending_approvals'[n + m].description
           /\ has_new_approval'
           /\ force_approval_check'
           /\ raised' = raised]_vars

\* a Register has just appended a record behind an approved one
C6_RegisteredBehindApproved ==
    /\ Len(pending_approvals) = 2
    /\ pending_approvals[1].status = "approved"
    /\ pending_approvals[2].status = "pending"
    /\ Len(tool_returns) = 1
    /\ tool_returns[1].kind = "deferral"
    /\ tool_returns[1].action = pending_approvals[2].action
    /\ has_new_approval

\* a tool call that does not go through approval: the module's flag is
\* false or it has no handler; the agent's flag is false
Bypassed(e) ==
    IF e.site = "module" THEN ~e.flag \/ e.handler = "None" ELSE ~e.flag

\* C7: a tool call made with the approval flag false, or by a module without
\* a handler, calls the action once at once, returns what the action gives,
\* and appends no record to the approval log.
C7_SynchronousBypass ==
    [][\A k \in DOMAIN tool_returns' :
        Bypassed(tool_returns'[k]) =>
            /\ tool_returns'[k].called = 1
            /\ tool_returns'[k].kind \in {"result", "raised"}
            /\ tool_returns'[k].action = 0
            /\ pending_approvals' = pending_approvals]_vars

\* a module with the flag set and no handler has run its action while
\* records wait in the log
C7_NoHandlerRan ==
    /\ pending_approvals # <<>>
    /\ \E k \in DOMAIN tool_returns :
        /\ tool_returns[k].site = "module"
        /\ tool_returns[k].flag
        /\ tool_returns[k].handler = "None"
        /\ tool_returns[k].called = 1
        /\ tool_returns[k].kind = "result"

\* C8: when a registered record becomes approved, its action has been called
\* exactly once and the chat message of the step carries what it returned.
C8_ApprovedRoundTrip ==
    [][\A i \in DOMAIN pending_approvals : \A j \in DOMAIN pending_approvals' :
        (SameRecord(i, j) /\ IsPending(pending_approvals[i])
                          /\ pending_approvals'[j].status = "approved")
            => /\ pending_approvals'[j].calls = 1
               /\ \E k \in DOMAIN messages' :
                    messages'[k] = ExecutedMessage(Result(pending_approvals'[j].action))]_vars

\* C9: no two records of the log carry the same id, for any sequence of
\* Register, approve, deny and clear-processed.
C9_IdsUnique ==
    \A i \in DOMAIN pending_approvals : \A j \in DOMAIN pending_approvals :
        i # j => pending_approvals[i].id # pending_approvals[j].id

\* C10: the list the panel draws is the subsequence of the pending records
\* of the log, in the order of the log.
C10_ListPending ==
    ~rerun_requested => page.records = KeysOf(PendingList(pending_approvals))

\* the panel is drawn for a log that holds a pending record and others
C10_PanelSkipsResolved ==
    /\ ~rerun_requested
    /\ page.records # <<>>
    /\ Len(page.records) < Len(pending_approvals)

\* the records of this state whose action the step calls
CalledIn ==
    {i \in DOMAIN pending_approvals :
        \E j \in DOMAIN pending_approvals' :
            /\ SameRecord(i, j)
            /\ pending_approvals'[j].calls > pending_approvals[i].calls}

\* C11: a step in which approve_all runs (the only step that calls more than
\* one action) leaves every record that was pending approved with one more
\* call, and no step calls the action of a record that is not pending.
C11_BulkApproveAll ==
    [][/\ Cardinality(CalledIn) > 1 =>
            \A i \in DOMAIN pending_approvals :
                IsPending(pending_approvals[i]) =>
                    \E j \in DOMAIN pending_approvals' :
                        /\ SameRecord(i, j)
                        /\ pending_approvals'[j].status = "approved"
                        /\ pending_approvals'[j].calls = pending_approvals[i].calls + 1
       /\ \A i \in CalledIn : IsPending(pending_approvals[i])]_vars

\* C13: a step that removes records (clear-processed) removes the approved
\* and the denied records and no other: what stays is the pending records
\* as they were, in their order, and the list of pending records is the same.
C13_CleanupScoping ==
    [][Len(pending_approvals') < Len(pending_approvals) =>
        /\ pending_approvals' = SelectSeq(pending_approvals, LAMBDA r : ~Terminal(r))
        /\ PendingList(pending_approvals') = PendingList(pending_approvals)]_vars

\* clear-processed has removed the oldest record and kept the pending ones
C13_OldestRemoved ==
    /\ Len(pending_approvals) = 2
    /\ pending_approvals[1].id = 1
    /\ \A i \in DOMAIN pending_approvals : IsPending(pending_approvals[i])

\* the number of pending records grows only in a step that registers
GrowsOnlyByRegister ==
    PendingCount(pending_approvals') > PendingCount(pending_approvals)
        => closures' > closures

\* C14: the number of pending records grows only in a step that registers,
\* and no step removes a pending record from the log: a pending record
\* stays, pending or resolved.
C14_PendingCountSteps ==
    [][/\ GrowsOnlyByRegister
       /\ \A i \in DOMAIN pending_approvals :
            IsPending(pending_approvals[i])
                => \E j \in DOMAIN pending_approvals' : SameRecord(i, j)]_vars

\* C14 as the code has it: the number of pending records grows only in a
\* step that registers, and a pending record leaves the log only in the step
\* of the debug button, which empties the log and resets the three flags;
\* clear-processed and clear-history remove resolved records only.
C14_PendingCountStepsDebugClears ==
    [][/\ GrowsOnlyByRegister
       /\ \A i \in DOMAIN pending_approvals :
            IsPending(pending_approvals[i])
                => \/ \E j \in DOMAIN pending_approvals' : SameRecord(i, j)
                   \/ /\ pending_approvals' = <<>>
                      /\ ~has_new_approval'
                      /\ ~force_approval_check'
                      /\ ~approval_ui_shown'
                      /\ rerun_requested']_vars

\* the debug button is on the page while two records are pending
C14_DebugButtonBesidePending ==
    /\ ~rerun_requested
    /\ "debug_clear_all" \in page.buttons
    /\ PendingCount(pending_approvals) = 2
    /\ Len(page.records) = 2

\* C15: an approve asked for an id that no record of the log carries returns
\* without raising, calls no action and leaves the log and the flags as they
\* were.
C15_UnknownIdSafety ==
    [][(/\ mock'.op = "approve"
        /\ \A i \in DOMAIN pending_approvals : pending_approvals[i].id # mock'.id)
        => /\ mock'.value = FALSE
           /\ pending_approvals' = pending_approvals
           /\ has_new_approval' = has_new_approval
           /\ force_approval_check' = force_approval_check
           /\ approval_ui_shown' = approval_ui_shown
           /\ raised' = raised]_vars

\* an approve for an id beyond the log has returned while a record is pending
C15_UnknownIdAsked ==
    /\ mock.op = "approve"
    /\ mock.value = FALSE
    /\ AnyPending(pending_approvals)
    /\ \A i \in DOMAIN pending_approvals : pending_approvals[i].id # mock.id

\* the record of closure a is pending
PendingRecord(a) ==
    \E i \in DOMAIN pending_approvals :
        pending_approvals[i].action = a /\ IsPending(pending_approvals[i])

\* a pass has run to its end and drawn the buttons of the record of closure a
VisibleRecord(a) ==
    /\ ~rerun_requested
    /\ \E i \in DOMAIN pending_approvals :
        /\ pending_approvals[i].action = a
        /\ ButtonKey(pending_approvals[i]) \in RecordKeys

\* C16: whatever the three flags are, a pending record is followed by a pass
\* that runs to its end and draws the record's approve and deny buttons,
\* unless the record is resolved or removed first.
C16_PendingEventuallyVisible ==
    \A a \in 1..MaxRenderRegisters :
        PendingRecord(a) ~> (VisibleRecord(a) \/ ~PendingRecord(a))

\* a record was registered while the panel flag was already set and is not
\* on the page yet
C16_RegisteredWhileShown ==
    /\ has_new_approval
    /\ force_approval_check
    /\ approval_ui_shown
    /\ rerun_requested
    /\ \E i \in DOMAIN pending_approvals :
        /\ IsPending(pending_approvals[i])
        /\ ButtonKey(pending_approvals[i]) \notin RecordKeys

\* the records of the log with the given status
WithStatus(approvals, status) ==
    {i \in DOMAIN approvals : approvals[i].status = status}

\* C17: the UI check that follows a Register returns true, and while the
\* calls keep the order Register, UI check, approve the newest pending
\* record, after each approve no record is pending and the approved records
\* are as many as the cycles done.
C17_EveryCycleShowsUi ==
    [][/\ (mock.op = "request" /\ mock'.op = "check") => mock'.value = TRUE
       /\ (mock'.op = "approve" /\ mock'.onloop) =>
            /\ mock'.value = TRUE
            /\ ~AnyPending(pending_approvals')
            /\ Cardinality(WithStatus(pending_approvals', "approved")) = mock'.cycles
            /\ Len(pending_approvals') = mock'.cycles]_vars

\* the third cycle of the test's loop is done
C17_ThirdCycleDone ==
    /\ mock.op = "approve"
    /\ mock.onloop
    /\ mock.cycles = 3
    /\ Len(pending_approvals) = 3

\* the category filter a get_tools call is given: the one passed, else the
\* one configured as enabled_categories
GivenFilter(reg) ==
    IF reg.call.categories.list # <<>> THEN reg.call.categories.list
    ELSE reg.given_categories

\* C18: whenever get_tools is called with a category filter given (passed or
\* configured, unrecognized strings included) and no name filter, it returns
\* exactly the module tools whose config exists, is enabled and has a
\* category in the filter set.
C18_FilterCorrectness ==
    (/\ registry.call.op = "get_tools"
     /\ OrEnabledTools(registry, registry.call.enabled_tools) = <<>>
     /\ GivenFilter(registry) # <<>>)
    => ToSet(registry.call.tools) =
          {name \in ToSet(ModuleTools(registry)) :
              /\ registry.tool_configs[name].present
              /\ registry.tool_configs[name].enabled
              /\ registry.tool_configs[name].category \in ToSet(GivenFilter(registry))}

\* C19: no result of get_tools, get_tool_by_name or get_tool_info holds a tool
\* whose config has enabled = false, also after register_custom_tool replaced
\* the config of a module tool.
C19_DisabledNeverSurfaced ==
    \A name \in ConfigNames :
        (registry.tool_configs[name].present /\ ~registry.tool_configs[name].enabled)
        => /\ name \notin ToSet(registry.call.tools)
           /\ \A category \in Categories : <<category, name>> \notin registry.call.info

\* C20: with enable_user_approval true and a handler set, an invoked module
\* tool hands its action to the handler if and only if its ToolConfig has
\* requires_approval = true.
C20_RequiresApprovalTriggers ==
    (/\ registry.call.op = "tool"
     /\ registry.enable_user_approval
     /\ registry.approval_handler # "None")
    => (registry.call.dispatched
          <=> registry.tool_configs[registry.call.name].requires_approval)

\* the modules of the registry that raised in their constructor, in
\* get_tool_configs or in get_tools
FailingModules(reg) ==
    {module \in ToSet(ModuleOrder) :
        \/ ~Constructs(reg, module)
        \/ reg.fails.module = module}

\* the registry constructed with the same arguments had the failing modules
\* not existed, after the same register_custom_tool calls
WithoutFailing(reg) ==
    LET fresh == NewRegistryOver(ToSet(ModuleOrder) \ FailingModules(reg),
                                 reg.given_categories, reg.enabled_tools,
                                 reg.enable_user_approval, reg.approval_handler,
                                 reg.mcp_requires_approval, TRUE, NoFailure)
    IN [fresh EXCEPT !.tool_configs = UpdateConfigs(@, reg.custom_entries)]

NamesOfFailing(reg) ==
    UNION {ToSet(ToolsOf(module)) : module \in FailingModules(reg)}

\* C21: a module that raises in its constructor, in get_tool_configs or in
\* get_tools contributes no tool to get_tools, and the configs and the tools
\* of the other modules are those of a registry without that module.
C21_PartialFailureTolerance ==
    /\ \A name \in ConfigNames \ NamesOfFailing(registry) :
          registry.tool_configs[name] = WithoutFailing(registry).tool_configs[name]
    /\ registry.call.op = "get_tools"
       => /\ ToSet(registry.call.tools) \cap NamesOfFailing(registry) = {}
          /\ registry.call.tools =
                GetTools(WithoutFailing(registry), registry.call.categories,
                         registry.call.enabled_tools)

RECURSIVE SumOfCounts(_)
SumOfCounts(pairs) ==
    IF pairs = {} THEN 0
    ELSE LET pair == CHOOSE q \in pairs : TRUE
         IN pair[2] + SumOfCounts(pairs \ {pair})

HeldConfigs(reg) == {name \in ConfigNames : reg.tool_configs[name].present}

EnabledConfigs(reg) == {name \in HeldConfigs(reg) : reg.tool_configs[name].enabled}

StatisticsAggregate(reg, stats) ==
    /\ stats.total_tools = Cardinality(HeldConfigs(reg))
    /\ stats.enabled_tools = Cardinality(EnabledConfigs(reg))
    /\ stats.modules_loaded =
          Cardinality({module \in ToSet(ModuleOrder) : Constructs(reg, module)})
    /\ stats.enabled_tools <= stats.total_tools
    /\ \A category \in Categories :
          LET count == Cardinality({name \in EnabledConfigs(reg) :
                                       reg.tool_configs[name].category = category})
          IN IF count = 0
             THEN \A pair \in stats.categories : pair[1] # category
             ELSE /\ <<category, count>> \in stats.categories
                  /\ \A pair \in stats.categories : pair[1] = category => pair[2] = count
    /\ SumOfCounts(stats.categories) = stats.enabled_tools

StatisticsPure ==
    registry'.call.op = "get_statistics"
    => /\ registry'.tool_configs = registry.tool_configs
       /\ registry'.modules = registry.modules

\* C22: get_statistics changes neither the config map nor the module map,
\* and its totals, its per-category counts (zero counts left out) and their
\* sum are those of the configs and modules the registry holds.
C22_StatisticsAggregate ==
    /\ [](registry.call.op = "get_statistics"
            => StatisticsAggregate(registry, registry.call.stats[1]))
    /\ [][StatisticsPure]_vars

\* statistics were taken while a disabled config was held and after a reload
C22_DisabledCounted ==
    /\ registry.call.op = "get_statistics"
    /\ registry.reloads > 0
    /\ registry.call.stats[1].enabled_tools < registry.call.stats[1].total_tools

\* the config most recently put into the registry under the name
LastRegistered(reg, name) ==
    reg.registered[CHOOSE i \in DOMAIN reg.registered :
                      /\ reg.registered[i].name = name
                      /\ \A j \in DOMAIN reg.registered :
                            reg.registered[j].name = name => j <= i].config

\* C23: after any module initialisations and register_custom_tool calls the
\* registry holds one config per name, and the config it holds for a name is
\* the one most recently registered under that name.
C23_LastRegisteredWins ==
    \A name \in ConfigNames :
        registry.tool_configs[name].present
        => /\ \E i \in DOMAIN registry.registered : registry.registered[i].name = name
           /\ registry.tool_configs[name] = LastRegistered(registry, name)

\* a custom config replaced the config the basic module registered for the
\* calculator
C23_ModuleConfigReplaced ==
    /\ registry.call.op = "register_custom_tool"
    /\ registry.call.name = "calculator"
    /\ registry.tool_configs["calculator"].category = "custom"
    /\ \E i \in DOMAIN registry.registered :
          /\ registry.registered[i].name = "calculator"
          /\ registry.registered[i].config.category = "utility"

\* the registry constructed anew with the constructor arguments of reg
Fresh(reg) ==
    NewRegistry(reg.given_categories, reg.enabled_tools, reg.enable_user_approval,
                reg.approval_handler, reg.mcp_requires_approval, reg.memory_manager,
                reg.fails)

ReloadedTwice ==
    (registry.call.op = "reload_modules" /\ registry'.call.op = "reload_modules")
    => /\ registry'.tool_configs = registry.tool_configs
       /\ registry'.modules = registry.modules

\* C24: after reload_modules the config map and the module keys are those of
\* a freshly constructed registry with the same arguments, custom configs
\* being gone, and a second reload_modules in a row changes neither.
C24_ReloadRebuilds ==
    /\ [](registry.call.op = "reload_modules"
            => /\ registry.tool_configs = Fresh(registry).tool_configs
               /\ registry.modules = Fresh(registry).modules)
    /\ [][ReloadedTwice]_vars

\* reload_modules ran twice in a row after a custom config was registered
C24_CustomConfigGone ==
    /\ registry.call.op = "reload_modules"
    /\ registry.reloads = 2
    /\ registry.customs > 0
    /\ \E i \in DOMAIN registry.registered : registry.registered[i].name = "custom_tool"
    /\ ~registry.tool_configs["custom_tool"].present

\* C30: when get_tools is called with a categories argument, an empty list
\* included, the category filter it applies is that argument, and likewise
\* for enabled_tools; the instance settings apply only to an argument left
\* out.
C30_ArgumentsOverride ==
    registry.call.op = "get_tools"
    => /\ registry.call.filter_categories =
             IF registry.call.categories.passed THEN registry.call.categories.list
             ELSE registry.enabled_categories
       /\ registry.call.filter_tools =
             IF registry.call.enabled_tools.passed THEN registry.call.enabled_tools.list
             ELSE registry.enabled_tools

Min(a, b) == IF a <= b THEN a ELSE b

\* the messages a session holds, none for a session the store does not hold
MessagesIn(store, session_id) ==
    IF store[session_id].held THEN store[session_id].messages ELSE <<>>

Trimmed ==
    memory'.call.op = "trim_session_messages"
    => LET session_id == memory'.call.session_id
           before == MessagesIn(memory.store, session_id)
           kept == Min(Len(before), memory'.call.max_messages)
       IN /\ MessagesIn(memory'.store, session_id) =
                SubSeq(before, Len(before) - kept + 1, Len(before))
          /\ memory'.call.returned = Len(before) - kept

\* C25: trim_session_messages(session, k) on n messages leaves the min(n, k)
\* most recent ones in their order and returns n - min(n, k), for every
\* n >= 0 and k >= 0.
C25_TrimKeepsMostRecent == [][Trimmed]_vars

RoundTripped ==
    memory'.call.op = "import_session"
    => /\ memory'.call.success
       /\ MessagesIn(memory'.store, memory'.call.session_id) =
             MessagesIn(memory.store, memory'.call.source)

\* C26: import_session(target, export_session(source)) returns true and
\* leaves the target with the messages of the source, same number, order,
\* type and content, whatever the target held before.
C26_ExportImportRoundTrip == [][RoundTripped]_vars

Cleared ==
    /\ memory'.call.op = "clear_session"
       => /\ MessageCount(memory'.store, memory'.call.session_id) = 0
          /\ \A other \in Sessions \ {memory'.call.session_id} :
                MessagesIn(memory'.store, other) = MessagesIn(memory.store, other)
    /\ memory'.call.op = "clear_all_sessions"
       => /\ memory'.call.returned = Cardinality(GetAllSessions(memory.store))
          /\ \A session_id \in GetAllSessions(memory.store) :
                MessageCount(memory'.store, session_id) = 0

\* C27: after clear_session(s) the message count of s is 0 and the messages
\* of every other session are unchanged; clear_all_sessions returns the
\* number of sessions of the store and leaves each with message count 0.
C27_Clearing == [][Cleared]_vars

\* session1 was cleared while session2 held two of the three messages added
C27_OtherSessionKept ==
    /\ memory.call.op = "clear_session"
    /\ memory.call.session_id = "session1"
    /\ memory.call.success
    /\ memory.added = 3
    /\ Len(MessagesIn(memory.store, "session2")) = 2
    /\ MessageCount(memory.store, "session1") = 0

\* a step of an individual approve or deny: the log keeps its length and
\* one record leaves 'pending'
ResolvedOne ==
    /\ Len(pending_approvals') = Len(pending_approvals)
    /\ Cardinality({i \in DOMAIN pending_approvals :
                      /\ IsPending(pending_approvals[i])
                      /\ ~IsPending(pending_approvals'[i])}) = 1

UiShownKept ==
    (ResolvedOne /\ ~approval_ui_shown') => ~AnyPending(pending_approvals')

\* C28: right after an individual approve or deny approval_ui_shown is false
\* only if no record of the log is still pending, also in logs that
\* clear-processed shortened before new records were registered.
C28_UiShownResetWhenDone == [][UiShownKept]_vars

\* the pass the script makes from session s when nobody clicked
PassFrom(s) ==
    RunScript(SetEnableUserApproval([s EXCEPT !.tool_returns = <<>>, !.messages = <<>>],
                                    NoEvent),
              NoEvent, {})

\* the pass that runs to completion draws the panel with both flags down
DrawnWithFlagsDown(r) ==
    ~r.rerun => (~r.s.has_new_approval /\ ~r.s.force_approval_check)

\* C29: from any flags and any log, with nobody clicking, at most three
\* passes in a row end in a rerun before one runs to completion, and that
\* one draws the panel with has_new_approval and force_approval_check false.
C29_RerunChainTerminates ==
    LET r1 == PassFrom(Session)
        r2 == PassFrom(r1.s)
        r3 == PassFrom(r2.s)
        r4 == PassFrom(r3.s)
    IN /\ ~(r1.rerun /\ r2.rerun /\ r3.rerun /\ r4.rerun)
       /\ DrawnWithFlagsDown(r1)
       /\ r1.rerun => DrawnWithFlagsDown(r2)
       /\ (r1.rerun /\ r2.rerun) => DrawnWithFlagsDown(r3)
       /\ (r1.rerun /\ r2.rerun /\ r3.rerun) => DrawnWithFlagsDown(r4)
       /\ (~rerun_requested /\ page # EmptyPage)
          => (~has_new_approval /\ ~force_approval_check)

\* the chain has ended: the panel is drawn for a pending record, flags down
C29_PanelDrawnAfterChain ==
    /\ ~rerun_requested
    /\ page # EmptyPage
    /\ AnyPending(pending_approvals)
    /\ approval_ui_shown
    /\ ~has_new_approval
    /\ ~force_approval_check

====
